---------------------------- MODULE Spec2Model ----------------------------
(***************************************************************************)
(* Model of lychrel/py.py: the generalized Fibonacci stepper, the          *)
(* reverse-and-add palindrome search and the Collatz generator, together   *)
(* with the bounded search and the candidate test that the specification   *)
(* describes on top of the same transition.                                *)
(*                                                                         *)
(* From pc = "main" a call action draws the arguments, and the following   *)
(* actions are the steps of the called function's body.  A bounded search  *)
(* that is over may be followed by a second one on the same number with a  *)
(* larger cap, or by the unbounded search on the same number, so that the  *)
(* results can be set side by side.                                        *)
(***************************************************************************)
EXTENDS Integers, Sequences, FiniteSets

\* ------------------------------------------------------------------ bounds
\* Largest argument n of fibonacci, and largest |p|, |q|.
MaxN == 6
MaxPQ == 2
\* Largest small number handed to the palindrome search and to reverse (the
\* numbers of the tests are added).
MaxNumber == 200
\* The unbounded search is followed for at most this many additions.
MaxIterations == 300
\* Largest small iteration cap / candidate threshold handed to the bounded
\* search (the cap of the tests is added).
MaxCap == 5
\* Largest small argument of collatz (two arguments above 2^54 are added).
MaxStart == 12

\* The cap the tests hand to the bounded search.
TestCap == 300

VARIABLES
    pc,             \* position of the one call that is running
    n, p, q,        \* fibonacci: arguments
    n1, n2,         \* fibonacci: the pair (prev, curr)
    range_i,        \* fibonacci: next value range(1, n) will hand out
    fib_ret,        \* fibonacci: returned value
    number,         \* find_lychrel_palindrome: argument
    next_number,    \* find_lychrel_palindrome: current value
    iterations,     \* find_lychrel_palindrome: additions performed
    seen,           \* find_lychrel_palindrome: the values next_number has
                    \* held so far, in order
    x, cap,         \* search_bounded / is_candidate: arguments
    current, count, \* search_bounded: the pair the transition works on
    state,          \* search_bounded: SEARCHING or one of the terminal states
    candidate,      \* is_candidate: returned flag
    earlier,        \* the cap and the result of a first bounded search, once
                    \* a second one on the same number has been started
    rev_x,          \* reverse: argument
    rev_once,       \* reverse(rev_x)
    rev_twice,      \* reverse(reverse(rev_x))
    start,          \* collatz: argument
    collatz_n,      \* collatz: the local n
    yielded         \* collatz: the elements handed out so far, in order

fibVars == <<n, p, q, n1, n2, range_i, fib_ret>>
lyVars == <<number, next_number, iterations, seen>>
sbVars == <<x, cap, current, count, state, candidate, earlier>>
revVars == <<rev_x, rev_once, rev_twice>>
coVars == <<start, collatz_n, yielded>>
vars == <<pc, fibVars, lyVars, sbVars, revVars, coVars>>

\* ------------------------------------------------------ ints of any size
\* The search and collatz work on ints of any size. Such an int is held as
\* its digits in some base, least significant first, with no most
\* significant zero (so 0 is the empty sequence): base 10 for the search,
\* whose steps go through the decimal string, base 2 for collatz.
RestOf(a) == IF a = <<>> THEN <<>> ELSE Tail(a)

LowDigit(a) == IF a = <<>> THEN 0 ELSE Head(a)

DigitAt(a, i) == IF i <= Len(a) THEN a[i] ELSE 0

\* The carry out of position i, given the digit sums s of two ints: a sum
\* above base - 1 makes a carry, a sum of base - 1 hands on the one below.
RECURSIVE CarryOut(_, _, _)
CarryOut(s, i, base) ==
    IF i = 0 THEN 0
    ELSE IF s[i] >= base THEN 1
    ELSE IF s[i] < base - 1 THEN 0
    ELSE CarryOut(s, i - 1, base)

\* a + b in the given base.
AddDigits(a, b, base) ==
    LET m == IF Len(a) >= Len(b) THEN Len(a) ELSE Len(b)
        s == <<>> \o [i \in 1..m |-> DigitAt(a, i) + DigitAt(b, i)]
    IN  [i \in 1..m |-> (s[i] + CarryOut(s, i - 1, base)) % base]
            \o (IF CarryOut(s, m, base) = 1 THEN <<1>> ELSE <<>>)

\* The int k >= 0 in the given base.
RECURSIVE DigitsOf(_, _)
DigitsOf(k, base) ==
    IF k = 0 THEN <<>> ELSE <<k % base>> \o DigitsOf(k \div base, base)

\* The int written with the decimal digits ds, most significant first.
Written(ds) == <<>> \o [i \in 1..Len(ds) |-> ds[Len(ds) + 1 - i]]

\* The numbers of the tests that lie above MaxNumber.
LYCHREL_NUMBERS ==
    { Written(<<1, 0, 9, 1, 1>>),
      Written(<<1, 1, 8, 6, 0, 6, 0, 3, 0, 7, 8, 9, 1, 9, 2, 9, 9, 9, 0>>) }

Numbers == {DigitsOf(k, 10) : k \in 0..MaxNumber} \cup LYCHREL_NUMBERS

Caps == (0..MaxCap) \cup {TestCap}

\* ------------------------------------------------- decimal strings (str/int)
Digits == <<"0", "1", "2", "3", "4", "5", "6", "7", "8", "9">>

Chr(d) == Digits[d + 1]

DigitVal(c) == CHOOSE d \in 0..9 : Digits[d + 1] = c

\* str(v) of a non-negative int: its decimal characters, most significant
\* first, no leading zero ("0" for 0).
str(v) ==
    IF v = <<>> THEN <<"0">>
    ELSE LET k == Len(v) IN <<>> \o [i \in 1..k |-> Chr(v[k + 1 - i])]

\* A slice written s[::1]: the string itself.
slice_forward(s) == s

\* A slice written s[:0:-1]: reversed, the first character left out.
slice_reverse_short(s) ==
    LET k == Len(s) IN <<>> \o [i \in 1..(k - 1) |-> s[k + 1 - i]]

\* s[::-1]
slice_reverse(s) == LET k == Len(s) IN <<>> \o [i \in 1..k |-> s[k + 1 - i]]

\* The digits ds without their most significant zeros.
RECURSIVE Normalized(_)
Normalized(ds) ==
    IF ds = <<>> \/ ds[Len(ds)] # 0 THEN ds
    ELSE Normalized(SubSeq(ds, 1, Len(ds) - 1))

\* int(s) of a string of decimal characters: leading zeros carry no value.
int(s) ==
    LET k == Len(s)
    IN  Normalized(<<>> \o [i \in 1..k |-> DigitVal(s[k + 1 - i])])

\* a + b on ints.
Plus(a, b) == AddDigits(a, b, 10)

\* An exit test that compares only the two ends of s.
LoopBreaksEnds(v) == str(v)[1] = str(v)[Len(str(v))]

\* The loop's exit test: s == r with s = str(v), r = s[::-1].
LoopBreaks(v) == str(v) = slice_reverse(str(v))

\* An update that adds int(s) instead of int(r).
NextNumberUnreversed(v) == Plus(v, int(str(v)))

\* An update that replaces the value by int(r) instead of adding it.
NextNumberNoAdd(v) == int(slice_reverse(str(v)))

\* The loop's update: v + int(r).
NextNumber(v) == Plus(v, int(slice_reverse(str(v))))

\* The digit reversal the search step uses: int(str(v)[::-1]).
reverse(v) == int(slice_reverse(str(v)))

\* --------------------------------------------------------------- fibonacci
\* The update with the sign of q dropped: p * n2 + q * n1.
FibUpdatePlus(a, b, pp, qq) == <<b, pp * b + qq * a>>

\* The right-hand side of  n1, n2 = n2, p * n2 - q * n1.
FibUpdate(a, b, pp, qq) == <<b, pp * b - qq * a>>

\* fibonacci(n, p, q) with n in (0, 1): return n.
FibBase ==
    /\ pc = "main"
    /\ \E nn \in 0..1, pp \in -MaxPQ..MaxPQ, qq \in -MaxPQ..MaxPQ :
        /\ n' = nn /\ p' = pp /\ q' = qq
        /\ fib_ret' = nn
    /\ pc' = "fib_done"
    /\ UNCHANGED <<n1, n2, range_i, lyVars, sbVars, revVars, coVars>>

\* fibonacci(n, p, q) with n >= 2: n1, n2 = 0, 1 and the loop is entered.
FibStart ==
    /\ pc = "main"
    /\ \E nn \in 2..MaxN, pp \in -MaxPQ..MaxPQ, qq \in -MaxPQ..MaxPQ :
        /\ n' = nn /\ p' = pp /\ q' = qq
    /\ n1' = 0 /\ n2' = 1
    /\ range_i' = 1
    /\ pc' = "fib_loop"
    /\ UNCHANGED <<fib_ret, lyVars, sbVars, revVars, coVars>>

\* One pass of  for _ in range(1, n).
FibStep ==
    /\ pc = "fib_loop"
    /\ range_i < n
    /\ n1' = FibUpdate(n1, n2, p, q)[1]
    /\ n2' = FibUpdate(n1, n2, p, q)[2]
    /\ range_i' = range_i + 1
    /\ UNCHANGED <<pc, n, p, q, fib_ret, lyVars, sbVars, revVars, coVars>>

\* range(1, n) is exhausted: return n2.
FibReturn ==
    /\ pc = "fib_loop"
    /\ range_i >= n
    /\ fib_ret' = n2
    /\ pc' = "fib_done"
    /\ UNCHANGED <<n, p, q, n1, n2, range_i, lyVars, sbVars, revVars, coVars>>

\* ------------------------------------------------- find_lychrel_palindrome
LyCall ==
    /\ pc = "main"
    /\ \E v \in Numbers :
        /\ number' = v
        /\ next_number' = v
        /\ seen' = <<v>>
    /\ iterations' = 0
    /\ pc' = "ly_loop"
    /\ UNCHANGED <<fibVars, sbVars, revVars, coVars>>

\* The same call, made on the number a bounded search has just been run on.
LyCallAfterSearch ==
    /\ pc = "sb_done"
    /\ ~earlier.called
    /\ number' = x
    /\ next_number' = x
    /\ seen' = <<x>>
    /\ iterations' = 0
    /\ pc' = "ly_loop"
    /\ UNCHANGED <<fibVars, sbVars, revVars, coVars>>

\* One pass of while True that does not break.
LyAdd ==
    /\ pc = "ly_loop"
    /\ ~LoopBreaks(next_number)
    /\ iterations < MaxIterations
    /\ next_number' = NextNumber(next_number)
    /\ seen' = Append(seen, NextNumber(next_number))
    /\ iterations' = iterations + 1
    /\ UNCHANGED <<pc, number, fibVars, sbVars, revVars, coVars>>

\* s == r: break, and return (next_number, iterations).
LyBreak ==
    /\ pc = "ly_loop"
    /\ LoopBreaks(next_number)
    /\ pc' = "ly_done"
    /\ UNCHANGED <<lyVars, fibVars, sbVars, revVars, coVars>>

\* ------------------------------------------ search_bounded and is_candidate
\* A cap test that lets one addition too many through.
WithinCapInclusive(cnt, c) == cnt <= c

\* A cap test that reads a cap of 0 as "no cap given" and falls back to a
\* default.
WithinCapZeroDefault(cnt, c) == cnt < (IF c = 0 THEN MaxCap + 1 ELSE c)

\* count < cap
WithinCap(cnt, c) == cnt < c

\* True iff the bounded search did not reach PALINDROME_FOUND.
is_candidate(st) == st # "PALINDROME_FOUND"

NoEarlier == [called |-> FALSE, cap |-> 0, current |-> <<>>, count |-> 0]

\* search_bounded(x, cap) / is_candidate(x, cap): SEARCHING with
\* current = input and count = 0.
SearchBoundedCall ==
    /\ pc = "main"
    /\ \E v \in Numbers, c \in Caps :
        /\ x' = v /\ cap' = c
        /\ current' = v
    /\ count' = 0
    /\ state' = "SEARCHING"
    /\ pc' = "sb_loop"
    /\ UNCHANGED <<candidate, earlier, fibVars, lyVars, revVars, coVars>>

\* The same call on the same number with a larger cap, the first result
\* being kept.
SearchBoundedAgain ==
    /\ pc = "sb_done"
    /\ ~earlier.called
    /\ \E c \in Caps :
        /\ c > cap
        /\ cap' = c
    /\ earlier' = [called |-> TRUE, cap |-> cap, current |-> current,
                   count |-> count]
    /\ current' = x
    /\ count' = 0
    /\ state' = "SEARCHING"
    /\ pc' = "sb_loop"
    /\ UNCHANGED <<x, candidate, fibVars, lyVars, revVars, coVars>>

\* The transition: current <- current + reverse(current), count <- count + 1.
SearchStep ==
    /\ pc = "sb_loop"
    /\ ~LoopBreaks(current)
    /\ WithinCap(count, cap)
    /\ current' = NextNumber(current)
    /\ count' = count + 1
    /\ UNCHANGED <<pc, x, cap, state, candidate, earlier, fibVars, lyVars,
                   revVars, coVars>>

\* SEARCHING -> PALINDROME_FOUND: (current, count) is returned.
SearchFound ==
    /\ pc = "sb_loop"
    /\ LoopBreaks(current)
    /\ state' = "PALINDROME_FOUND"
    /\ candidate' = is_candidate("PALINDROME_FOUND")
    /\ pc' = "sb_done"
    /\ UNCHANGED <<x, cap, current, count, earlier, fibVars, lyVars, revVars,
                   coVars>>

\* SEARCHING -> CAP_EXCEEDED: (current, count) is returned.
SearchCapped ==
    /\ pc = "sb_loop"
    /\ ~LoopBreaks(current)
    /\ ~WithinCap(count, cap)
    /\ state' = "CAP_EXCEEDED"
    /\ candidate' = is_candidate("CAP_EXCEEDED")
    /\ pc' = "sb_done"
    /\ UNCHANGED <<x, cap, current, count, earlier, fibVars, lyVars, revVars,
                   coVars>>

\* ----------------------------------------------------------------- reverse
ReverseCall ==
    /\ pc = "main"
    /\ \E v \in Numbers :
        /\ rev_x' = v
        /\ rev_once' = reverse(v)
    /\ pc' = "rev_once"
    /\ UNCHANGED <<rev_twice, fibVars, lyVars, sbVars, coVars>>

ReverseAgain ==
    /\ pc = "rev_once"
    /\ rev_twice' = reverse(rev_once)
    /\ pc' = "rev_twice"
    /\ UNCHANGED <<rev_x, rev_once, fibVars, lyVars, sbVars, coVars>>

\* ----------------------------------------------------------------- collatz
\* A number is [type, neg, mag]: "int" or "float", its sign, and its
\* magnitude in binary, least significant bit first, no leading zero bit.
\* An int holds any magnitude; a float holds MantDig significant bits.
MantDig == 53

IntNum(k) ==
    [type |-> "int", neg |-> k < 0,
     mag |-> DigitsOf(IF k < 0 THEN -k ELSE k, 2)]

\* 2^54 + 2 and 2^54 + 6.
BigStarts ==
    { [type |-> "int", neg |-> FALSE,
       mag |-> [i \in 1..55 |-> IF i \in low \cup {55} THEN 1 ELSE 0]] :
        low \in {{2}, {2, 3}} }

CollatzStarts == {IntNum(k) : k \in -1..MaxStart} \cup BigStarts

Twice(a) == IF a = <<>> THEN <<>> ELSE <<0>> \o a

Thrice(a) == AddDigits(a, Twice(a), 2)

PlusOne(a) == AddDigits(a, <<1>>, 2)

IsOdd(a) == LowDigit(a) = 1

\* The nearest magnitude with at most MantDig significant bits, ties to the
\* even mantissa.
RoundToFloat(a) ==
    IF Len(a) <= MantDig THEN a
    ELSE LET k == Len(a) - MantDig
             top == SubSeq(a, k + 1, Len(a))
             half == a[k] = 1
             sticky == \E i \in 1..(k - 1) : a[i] = 1
             up == half /\ (sticky \/ top[1] = 1)
         IN  [i \in 1..k |-> 0] \o (IF up THEN PlusOne(top) ELSE top)

\* n % 2, as the condition of the conditional expression.
IsTruthyMod2(v) == IsOdd(v.mag)

\* 3 * n + 1: exact on an int; on a float each operation rounds.
ThreeNPlusOne(v) ==
    IF v.type = "int"
    THEN [v EXCEPT !.mag = PlusOne(Thrice(v.mag))]
    ELSE [v EXCEPT !.mag = RoundToFloat(PlusOne(RoundToFloat(Thrice(v.mag))))]

\* n / 2, taken when n is even: true division, whose result is a float.
TrueDivTwo(v) ==
    [type |-> "float", neg |-> v.neg, mag |-> RoundToFloat(RestOf(v.mag))]

\* 3 * n + 1 if n % 2 else n / 2
CollatzStep(v) == IF IsTruthyMod2(v) THEN ThreeNPlusOne(v) ELSE TrueDivTwo(v)

\* start <= 0
LeqZero(v) == v.neg \/ v.mag = <<>>

\* n != 1
NotOne(v) == v.neg \/ v.mag # <<1>>

\* collatz(start): the body holds a yield, so the call runs none of it and
\* hands back a generator that has not started.
CollatzCall ==
    /\ pc = "main"
    /\ \E v \in CollatzStarts : start' = v
    /\ pc' = "co_created"
    /\ UNCHANGED <<collatz_n, yielded, fibVars, lyVars, sbVars, revVars>>

\* First next() with start <= 0: raise ValueError.
CollatzRaise ==
    /\ pc = "co_created"
    /\ LeqZero(start)
    /\ pc' = "co_raised"
    /\ UNCHANGED <<coVars, fibVars, lyVars, sbVars, revVars>>

\* First next() otherwise: yield start.
CollatzYieldStart ==
    /\ pc = "co_created"
    /\ ~LeqZero(start)
    /\ yielded' = <<start>>
    /\ pc' = "co_yield_start"
    /\ UNCHANGED <<start, collatz_n, fibVars, lyVars, sbVars, revVars>>

\* The value of n when the generator is resumed: start after the first
\* yield (n = start), the local n after one in the loop.
ResumedN == IF pc = "co_yield_start" THEN start ELSE collatz_n

\* A later next() with n != 1: one pass of the loop, up to its yield.
CollatzYieldNext ==
    /\ pc \in {"co_yield_start", "co_yield_n"}
    /\ NotOne(ResumedN)
    /\ collatz_n' = CollatzStep(ResumedN)
    /\ yielded' = Append(yielded, CollatzStep(ResumedN))
    /\ pc' = "co_yield_n"
    /\ UNCHANGED <<start, fibVars, lyVars, sbVars, revVars>>

\* A later next() with n == 1: the loop ends and the generator is exhausted.
CollatzStop ==
    /\ pc \in {"co_yield_start", "co_yield_n"}
    /\ ~NotOne(ResumedN)
    /\ collatz_n' = ResumedN
    /\ pc' = "co_stopped"
    /\ UNCHANGED <<start, yielded, fibVars, lyVars, sbVars, revVars>>

\* Before a call, its variables hold a value of their type that nothing reads.
Init ==
    /\ pc = "main"
    /\ n = 0 /\ p = 0 /\ q = 0 /\ n1 = 0 /\ n2 = 0 /\ range_i = 0
    /\ fib_ret = 0
    /\ number = <<>> /\ next_number = <<>> /\ iterations = 0
    /\ seen = <<>>
    /\ x = <<>> /\ cap = 0 /\ current = <<>> /\ count = 0
    /\ state = "SEARCHING" /\ candidate = FALSE /\ earlier = NoEarlier
    /\ rev_x = <<>> /\ rev_once = <<>> /\ rev_twice = <<>>
    /\ start = IntNum(0) /\ collatz_n = IntNum(0) /\ yielded = <<>>

Next ==
    \/ FibBase \/ FibStart \/ FibStep \/ FibReturn
    \/ LyCall \/ LyCallAfterSearch \/ LyAdd \/ LyBreak
    \/ SearchBoundedCall \/ SearchBoundedAgain
    \/ SearchStep \/ SearchFound \/ SearchCapped
    \/ ReverseCall \/ ReverseAgain
    \/ CollatzCall \/ CollatzRaise \/ CollatzYieldStart
    \/ CollatzYieldNext \/ CollatzStop

Spec == Init /\ [][Next]_vars

\* ------------------------------------------------------------------ claims
\* Reference notions, written on the digits without going through strings.
IsDecimalPalindrome(v) == \A i \in 1..Len(v) : v[i] = v[Len(v) + 1 - i]

\* The number of zero digits at the low end of v.
LowZeros(v) ==
    IF v = <<>> THEN 0
    ELSE (CHOOSE i \in 1..Len(v) :
            v[i] # 0 /\ \A j \in 1..(i - 1) : v[j] = 0) - 1

\* The digits of v in the opposite order, the zeros that would lead dropped.
Mirror(v) ==
    LET k == Len(v) IN <<>> \o [i \in 1..(k - LowZeros(v)) |-> v[k + 1 - i]]

\* v + reverse(v)
ReverseAndAdd(v) == Plus(v, Mirror(v))

Min(a, b) == IF a <= b THEN a ELSE b

\* seen starts at number and each of its first m steps is a reverse-and-add:
\* seen[j + 1] is the iterate of number after j additions.
SeenIsTrajectory(m) ==
    /\ Len(seen) >= m + 1
    /\ seen[1] = number
    /\ \A j \in 1..m : seen[j + 1] = ReverseAndAdd(seen[j])

\* The Lucas sequence U(0) = 0, U(1) = 1, U(k) = p U(k-1) - q U(k-2).
RECURSIVE LucasU(_, _, _)
LucasU(k, pp, qq) ==
    IF k = 0 THEN 0
    ELSE IF k = 1 THEN 1
    ELSE pp * LucasU(k - 1, pp, qq) - qq * LucasU(k - 2, pp, qq)

Eighty9 == Written(<<8, 9>>)

OneNine6 == Written(<<1, 9, 6>>)

\* C1: when find_lychrel_palindrome returns (next_number, iterations), the
\* value is a palindrome, it is the iterate of number after exactly
\* iterations reverse-and-add steps, and no earlier iterate is a palindrome.
SearchStopsAtFirstPalindrome ==
    pc = "ly_done" =>
        /\ IsDecimalPalindrome(next_number)
        /\ Len(seen) = iterations + 1
        /\ SeenIsTrajectory(iterations)
        /\ next_number = seen[iterations + 1]
        /\ \A j \in 1..iterations : ~IsDecimalPalindrome(seen[j])

SearchReturnedAfterManyAdditions ==
    /\ pc = "ly_done"
    /\ iterations >= 24
    /\ Len(next_number) >= 13

\* C2: find_lychrel_palindrome returns (number, 0) exactly when number is a
\* palindrome; on a palindrome no addition is ever performed.
PalindromeFixedPoint ==
    /\ pc = "ly_done" =>
        (IsDecimalPalindrome(number) <=>
            (next_number = number /\ iterations = 0))
    /\ (pc = "ly_loop" /\ IsDecimalPalindrome(number)) =>
        /\ next_number = number /\ iterations = 0
        /\ ENABLED LyBreak
        /\ ~ENABLED LyAdd

PalindromeReturnedUnchanged ==
    /\ pc = "ly_done"
    /\ Len(number) >= 2
    /\ next_number = number
    /\ iterations = 0

\* C5: fibonacci(n, p, q) is the Lucas sequence U(n): 0 and 1 for n = 0 and
\* n = 1, the recurrence for n >= 2, reached by n - 1 updates of the pair
\* that starts at (0, 1).
FibonacciIsLucas ==
    /\ pc = "fib_done" =>
        /\ fib_ret = LucasU(n, p, q)
        /\ n = 0 => fib_ret = 0
        /\ n = 1 => fib_ret = 1
        /\ n >= 2 =>
            /\ fib_ret = p * LucasU(n - 1, p, q) - q * LucasU(n - 2, p, q)
            /\ range_i - 1 = n - 1
    /\ pc = "fib_loop" =>
        /\ n1 = LucasU(range_i - 1, p, q)
        /\ n2 = LucasU(range_i, p, q)
        /\ range_i <= n

FibonacciReturnedWithMixedSigns ==
    /\ pc = "fib_done"
    /\ n >= 4
    /\ p < 0
    /\ q > 0
    /\ fib_ret # 0

\* A bounded search on x is over and the unbounded search on the same x is
\* running or has returned.
Compared ==
    /\ pc \in {"ly_loop", "ly_done"}
    /\ state \in {"PALINDROME_FOUND", "CAP_EXCEEDED"}

\* ... and the unbounded search has got as far as the comparison needs: it
\* has returned, or it has performed cap additions.
Settled == Compared /\ (pc = "ly_done" \/ iterations >= cap)

\* C6: search_bounded(x, cap) returns (current, count) with count the
\* smaller of cap and the number of steps to the first palindrome, and
\* current the iterate after count steps; count <= cap, and when the
\* unbounded search returns within cap additions both return the same pair.
BoundedSearchContract ==
    /\ pc = "sb_done" =>
        /\ count <= cap
        /\ count < cap => IsDecimalPalindrome(current)
    /\ Settled =>
        LET m == Min(cap, iterations)
        IN  /\ count = m
            /\ SeenIsTrajectory(m)
            /\ current = seen[m + 1]
            /\ \A j \in 1..m : ~IsDecimalPalindrome(seen[j])
    /\ (Compared /\ pc = "ly_done" /\ iterations <= cap) =>
        /\ current = next_number
        /\ count = iterations

BoundedSearchCappedAtTestCap ==
    /\ Settled
    /\ cap = TestCap
    /\ count = TestCap
    /\ ~IsDecimalPalindrome(current)

\* C8: of two bounded searches on the same x, the one with the larger cap
\* returns a count at least as large, and if the one with the smaller cap
\* ended on a palindrome then so does the other, with the same result.
SearchMonotonicity ==
    (pc = "sb_done" /\ earlier.called) =>
        /\ earlier.cap < cap
        /\ count >= earlier.count
        /\ IsDecimalPalindrome(earlier.current) =>
            /\ IsDecimalPalindrome(current)
            /\ current = earlier.current
            /\ count = earlier.count

SecondSearchWentFurther ==
    /\ pc = "sb_done"
    /\ earlier.called
    /\ earlier.count >= 1
    /\ count > earlier.count
    /\ IsDecimalPalindrome(current)

\* C9: reverse(reverse(x)) = x for every x without a trailing zero digit;
\* reverse drops the zeros that would lead (reverse(120) = 21,
\* reverse(0) = 0), so on a positive x with a trailing zero the round trip
\* does not give x back.
ReversalInvolution ==
    /\ pc \in {"rev_once", "rev_twice"} =>
        /\ rev_once = Mirror(rev_x)
        /\ rev_x = Written(<<1, 2, 0>>) => rev_once = Written(<<2, 1>>)
        /\ rev_x = <<>> => rev_once = <<>>
    /\ pc = "rev_twice" =>
        /\ LowDigit(rev_x) # 0 => rev_twice = rev_x
        /\ (rev_x # <<>> /\ LowDigit(rev_x) = 0) => rev_twice # rev_x

ReversedTwiceBackToArgument ==
    /\ pc = "rev_twice"
    /\ LowDigit(rev_x) # 0
    /\ rev_once # rev_x
    /\ rev_twice = rev_x

ExactCollatz(a) == IF IsOdd(a) THEN PlusOne(Thrice(a)) ELSE RestOf(a)

InCollatz ==
    pc \in {"co_created", "co_raised", "co_yield_start", "co_yield_n",
            "co_stopped"}

\* C3: collatz(start) with start <= 0 has failed as soon as the call itself
\* is over: no generator is left waiting for its first element.
CollatzErrorIsEager ==
    (InCollatz /\ LeqZero(start)) => pc = "co_raised"

\* C4: what collatz(start) hands out for start >= 1 is start, then n/2 after
\* an even n and 3n+1 after an odd n, and 1 only as the last element.
\* Elements are compared by value, whatever their type.
CollatzSequenceIsTrajectory ==
    (InCollatz /\ ~LeqZero(start)) =>
        /\ yielded # <<>> => yielded[1].mag = start.mag
        /\ \A i \in 1..(Len(yielded) - 1) :
            /\ yielded[i + 1].mag = ExactCollatz(yielded[i].mag)
            /\ yielded[i].mag # <<1>>
        /\ pc = "co_stopped" => yielded[Len(yielded)].mag = <<1>>

\* C7: every element collatz hands out is an int, and is exactly the
\* Collatz image of the element before it.
CollatzElementsAreExactInts ==
    InCollatz =>
        \A i \in 1..Len(yielded) :
            /\ yielded[i].type = "int"
            /\ i > 1 => yielded[i].mag = ExactCollatz(yielded[i - 1].mag)

=============================================================================
